---- MODULE Spec2Model ----
(***************************************************************************)
(* Model of src/src/error.rs: the closed Error enum of the APNs client,    *)
(* its Display and std::error::Error implementations and its four From    *)
(* conversions.                                                            *)
(*                                                                         *)
(* Option<T> is modelled as a set with at most one element: None == {}    *)
(* and Some(x) == {x}.  Text written to a formatter is modelled as the     *)
(* sequence of string pieces written, in order.                            *)
(***************************************************************************)
EXTENDS Integers, Sequences, FiniteSets, TLC

(* ----------------------------- bounds ---------------------------------- *)

\* Number of nested Display::fmt activations the thread stack can hold.
MaxStack == 3

\* Largest line number a serde_json error is located at.
MaxLine == 2

(* ------------------------ lower-layer inputs --------------------------- *)

None == {}

Some(x) == {x}

\* Rendered messages of lower-layer failures.
Messages == {"bad key format", "No such file or directory"}

\* The subsystem in which a lower-layer failure arose.
\* openssl's ErrorStack is raised by signing and by TLS session setup alike,
\* io::Error by file reads and by TLS streams, hyper's error by the
\* connection and by the TLS connector below it.
SerdeErrors ==
    [type : {"SerdeError"}, layer : {"json"},
     category : {"Syntax", "Eof"}, line : 1..MaxLine]

ErrorStacks ==
    [type : {"ErrorStack"}, layer : {"signing", "tls"}, message : Messages]

IoErrors ==
    [type : {"IoError"}, layer : {"storage", "tls"}, message : Messages]

HyperErrors ==
    [type : {"HyperError"}, layer : {"transport", "tls"},
     kind : {"Connect", "Timeout"}]

\* crate::response: the reason body and the response of the gateway.
Reasons == {"BadDeviceToken", "PayloadTooLarge"}

ErrorBodies == [reason : Reasons, timestamp : {None, Some(1)}]

Responses ==
    [code : {400, 413}, apns_id : {None, Some("id-1")},
     error : {None} \cup {Some(b) : b \in ErrorBodies}]

(* ----------------------------- enum Error ------------------------------ *)

SerializeError == [tag |-> "SerializeError"]

ConnectionError == [tag |-> "ConnectionError"]

TimeoutError == [tag |-> "TimeoutError"]

SignerError(m) == [tag |-> "SignerError", msg |-> m]

ResponseError(r) == [tag |-> "ResponseError", response |-> r]

InvalidOptions(m) == [tag |-> "InvalidOptions", msg |-> m]

TlsError(m) == [tag |-> "TlsError", msg |-> m]

ReadError(m) == [tag |-> "ReadError", msg |-> m]

Tags ==
    {"SerializeError", "ConnectionError", "TimeoutError", "SignerError",
     "ResponseError", "InvalidOptions", "TlsError", "ReadError"}

(* ------------------------ StdError::description ------------------------ *)

\* Faulty variant: the arm of SignerError returns the carried diagnostic.
description_payload(e) ==
    CASE e.tag = "SerializeError"  -> "Error serializing to JSON"
      [] e.tag = "ConnectionError" -> "Error connecting to APNs"
      [] e.tag = "SignerError"     -> e.msg
      [] e.tag = "ResponseError"   -> "Notification was not accepted by APNs"
      [] e.tag = "InvalidOptions"  -> "Invalid options for APNs payload"
      [] e.tag = "TlsError"        -> "Error in creating a TLS connection"
      [] e.tag = "ReadError"       -> "Error in reading a certificate file"
      [] e.tag = "TimeoutError"    -> "Timeout in sending a push notification"

\* Faulty variant: the texts of ConnectionError and ResponseError are swapped.
description_swapped(e) ==
    CASE e.tag = "SerializeError"  -> "Error serializing to JSON"
      [] e.tag = "ConnectionError" -> "Notification was not accepted by APNs"
      [] e.tag = "SignerError"     -> "Error creating a signature"
      [] e.tag = "ResponseError"   -> "Error connecting to APNs"
      [] e.tag = "InvalidOptions"  -> "Invalid options for APNs payload"
      [] e.tag = "TlsError"        -> "Error in creating a TLS connection"
      [] e.tag = "ReadError"       -> "Error in reading a certificate file"
      [] e.tag = "TimeoutError"    -> "Timeout in sending a push notification"

description(e) ==
    CASE e.tag = "SerializeError"  -> "Error serializing to JSON"
      [] e.tag = "ConnectionError" -> "Error connecting to APNs"
      [] e.tag = "SignerError"     -> "Error creating a signature"
      [] e.tag = "ResponseError"   -> "Notification was not accepted by APNs"
      [] e.tag = "InvalidOptions"  -> "Invalid options for APNs payload"
      [] e.tag = "TlsError"        -> "Error in creating a TLS connection"
      [] e.tag = "ReadError"       -> "Error in reading a certificate file"
      [] e.tag = "TimeoutError"    -> "Timeout in sending a push notification"

(* --------------------------- From conversions -------------------------- *)

\* format!("{}", e) of a lower-layer failure: its rendered message.
format(e) == e.message

\* Faulty variant: the position of the JSON error is kept.
from_SerdeError_located(e) == [tag |-> "SerializeError", line |-> e.line]

from_SerdeError(e) == SerializeError

\* Faulty variant: the static text is stored instead of the message.
from_ErrorStack_static(e) == SignerError("Error creating a signature")

from_ErrorStack(e) == SignerError(format(e))

\* Faulty variant: the arm of the ErrorStack conversion is repeated.
from_IoError_signer(e) == SignerError(format(e))

from_IoError(e) == ReadError(format(e))

\* Faulty variant: a timed-out connection is reported as TimeoutError.
from_HyperError_timeout(e) ==
    IF e.kind = "Timeout" THEN TimeoutError ELSE ConnectionError

from_HyperError(e) == ConnectionError

(* ------------------------------- state --------------------------------- *)

VARIABLES
    err,       \* Option<Error>: the failure value the caller holds
    conv,      \* Option<[src, res]>: the conversion that produced err
    prevConv,  \* Option<[src, res]>: the latest conversion before that
    obs,       \* Option<[val, desc]>: description() taken of err
    prevObs,   \* Option<[val, desc]>: the latest description() before that
    pc,        \* "idle" | "fmt" | "returned" | "overflow"
    stack,     \* the suspended Display::fmt activations, outermost first
    out        \* the pieces written to the formatter so far

vars == <<err, conv, prevConv, obs, prevObs, pc, stack, out>>

Init ==
    /\ err = None
    /\ conv = None
    /\ prevConv = None
    /\ obs = None
    /\ prevObs = None
    /\ pc = "idle"
    /\ stack = <<>>
    /\ out = <<>>

\* A new failure value e replaces the one held; c is the conversion that
\* produced it, or None when the value was constructed directly.
Hold(e, c) ==
    /\ pc = "idle"
    /\ err' = Some(e)
    /\ conv' = c
    /\ prevConv' = IF conv # None THEN conv ELSE prevConv
    /\ obs' = None
    /\ prevObs' = IF obs # None THEN obs ELSE prevObs
    /\ UNCHANGED <<pc, stack, out>>

FromSerde ==
    \E e \in SerdeErrors :
        Hold(from_SerdeError(e), Some([src |-> e, res |-> from_SerdeError(e)]))

FromErrorStack ==
    \E e \in ErrorStacks :
        Hold(from_ErrorStack(e), Some([src |-> e, res |-> from_ErrorStack(e)]))

FromIo ==
    \E e \in IoErrors :
        Hold(from_IoError(e), Some([src |-> e, res |-> from_IoError(e)]))

FromHyper ==
    \E e \in HyperErrors :
        Hold(from_HyperError(e), Some([src |-> e, res |-> from_HyperError(e)]))

\* The variants no conversion produces are built by the code that detects
\* the failure.
Construct ==
    \E e \in {TimeoutError} \cup {InvalidOptions(m) : m \in Messages}
                            \cup {TlsError(m) : m \in Messages} :
        Hold(e, None)

\* A send that the gateway answers with a rejection: the response is handed
\* to the caller inside Error::ResponseError.
SendRejected ==
    \E r \in Responses :
        Hold(ResponseError(r),
             Some([src |-> [type |-> "Response", layer |-> "gateway",
                            response |-> r],
                   res |-> ResponseError(r)]))

\* The caller asks for the categorical description of the value it holds.
Describe ==
    /\ pc = "idle"
    /\ err # None
    /\ obs = None
    /\ \E e \in err : obs' = Some([val |-> e, desc |-> description(e)])
    /\ UNCHANGED <<err, conv, prevConv, prevObs, pc, stack, out>>

HasReason(e) ==
    /\ e.tag = "ResponseError"
    /\ e.response.error # None

\* The caller renders the value it holds (to_string, "{}").
Render ==
    /\ pc = "idle"
    /\ err # None
    /\ pc' = "fmt"
    /\ stack' = <<>>
    /\ out' = <<>>
    /\ UNCHANGED <<err, conv, prevConv, obs, prevObs>>

\* Display::fmt, first match arm: write!(fmt, "{} (reason: {:?})", self, reason).
\* The first argument is self, formatted with Display: the activation is
\* suspended before anything is written and Display::fmt is entered again
\* on the same value.
fmt_ReasonArm ==
    /\ pc = "fmt"
    /\ Len(stack) < MaxStack
    /\ \E e \in err : HasReason(e)
    /\ stack' = Append(stack, "reason")
    /\ UNCHANGED <<err, conv, prevConv, obs, prevObs, pc, out>>

\* Display::fmt, second match arm: write!(fmt, "{}", self).
fmt_DefaultArm ==
    /\ pc = "fmt"
    /\ Len(stack) < MaxStack
    /\ \E e \in err : ~HasReason(e)
    /\ stack' = Append(stack, "default")
    /\ UNCHANGED <<err, conv, prevConv, obs, prevObs, pc, out>>

\* No activation ever returns, so the nesting grows until the thread's
\* stack is exhausted and the process is aborted.
StackOverflow ==
    /\ pc = "fmt"
    /\ Len(stack) = MaxStack
    /\ pc' = "overflow"
    /\ UNCHANGED <<err, conv, prevConv, obs, prevObs, stack, out>>

Next ==
    \/ FromSerde
    \/ FromErrorStack
    \/ FromIo
    \/ FromHyper
    \/ Construct
    \/ SendRejected
    \/ Describe
    \/ Render
    \/ fmt_ReasonArm
    \/ fmt_DefaultArm
    \/ StackOverflow

Spec == Init /\ [][Next]_vars

TypeOK ==
    /\ pc \in {"idle", "fmt", "returned", "overflow"}
    /\ Cardinality(err) <= 1
    /\ Len(stack) <= MaxStack

(* ------------------------------ properties ----------------------------- *)

RenderEnded == pc \in {"returned", "overflow"}

\* The text the rendering of e is documented to produce: the variant's
\* static text, followed for a response with a reason body by the reason.
RenderedText(e) ==
    IF HasReason(e)
    THEN <<description(e), " (reason: ", "\"",
           (CHOOSE b \in e.response.error : TRUE).reason, "\"", ")">>
    ELSE <<description(e)>>

\* C1: once the rendering of a ResponseError has ended, it has returned and
\* the formatter holds the default text, followed by (reason: "r") exactly
\* when the response carries a reason body with reason r.
C1_ResponseErrorRendering ==
    \A e \in err :
        (RenderEnded /\ e.tag = "ResponseError")
            => (pc = "returned" /\ out = RenderedText(e))

\* C2: once the rendering of a value of any of the seven other variants has
\* ended, it has returned and the formatter holds exactly the variant's
\* static text, the text description() returns.
C2_StaticTextRendering ==
    \A e \in err :
        (RenderEnded /\ e.tag # "ResponseError")
            => (pc = "returned" /\ out = <<description(e)>>)

\* C3: description() depends on the variant only: any two values of the
\* same variant that were described got the same string, whatever they carry.
C3_DescriptionByTagOnly ==
    \A o \in obs : \A p \in prevObs :
        (o.val.tag = p.val.tag) => (o.desc = p.desc)

C3_Witness ==
    \E o \in obs : \E p \in prevObs :
        /\ o.val.tag = p.val.tag
        /\ o.val # p.val
        /\ o.val.tag \in {"ResponseError", "SignerError"}

\* A rejection with reason PayloadTooLarge and no identifier.
PayloadTooLargeNoId(r) ==
    /\ r.apns_id = None
    /\ \E b \in r.error : b.reason = "PayloadTooLarge"

\* C4 as claimed: a rejection with reason PayloadTooLarge and no identifier
\* reaches the caller as ResponseError carrying that response unchanged, and
\* its description is "Notification was not accepted by the gateway".
C4_AsClaimed ==
    \A c \in conv : \A o \in obs :
        (c.src.type = "Response" /\ PayloadTooLargeNoId(c.src.response))
            => /\ err = Some(ResponseError(c.src.response))
               /\ o.desc = "Notification was not accepted by the gateway"

\* C4 as amended: a rejection with reason PayloadTooLarge and no identifier
\* reaches the caller as ResponseError carrying that response unchanged, and
\* its description is "Notification was not accepted by APNs".
C4_RejectionSurfaces ==
    \A c \in conv :
        (c.src.type = "Response" /\ PayloadTooLargeNoId(c.src.response))
            => /\ err = Some(ResponseError(c.src.response))
               /\ \A e \in err :
                      /\ e.response.apns_id = None
                      /\ \E b \in e.response.error :
                             b.reason = "PayloadTooLarge"
               /\ \A o \in obs :
                      o.desc = "Notification was not accepted by APNs"

C4_Witness ==
    \E c \in conv : \E o \in obs :
        /\ c.src.type = "Response"
        /\ PayloadTooLargeNoId(c.src.response)
        /\ o.val \in err

\* C5: an ErrorStack whose rendered message is m converts to SignerError(m).
C5_ErrorStackToSignerError ==
    \A c \in conv :
        (c.src.type = "ErrorStack")
            => /\ c.res.tag = "SignerError"
               /\ c.res.msg = c.src.message
               /\ err = Some(c.res)

C5_Witness ==
    \E c \in conv :
        /\ c.src.type = "ErrorStack"
        /\ c.src.message = "bad key format"
        /\ err = Some(SignerError("bad key format"))

\* C6: every serde_json error converts to SerializeError, which carries
\* nothing: two JSON failures of different content convert to equal values.
C6_SerdeDetailDiscarded ==
    /\ \A c \in conv :
           (c.src.type = "SerdeError")
               => (c.res.tag = "SerializeError" /\ DOMAIN c.res = {"tag"})
    /\ \A c \in conv : \A p \in prevConv :
           (c.src.type = "SerdeError" /\ p.src.type = "SerdeError")
               => (c.res = p.res)

C6_Witness ==
    \E c \in conv : \E p \in prevConv :
        /\ c.src.type = "SerdeError"
        /\ p.src.type = "SerdeError"
        /\ c.src.category # p.src.category
        /\ c.src.line # p.src.line

\* C7: every hyper error converts to ConnectionError, which carries nothing:
\* two transport failures of different kind convert to equal values, and
\* none becomes TimeoutError, TlsError or ResponseError.
C7_HyperDetailDiscarded ==
    /\ \A c \in conv :
           (c.src.type = "HyperError")
               => /\ c.res.tag = "ConnectionError"
                  /\ DOMAIN c.res = {"tag"}
                  /\ c.res.tag \notin
                         {"TimeoutError", "TlsError", "ResponseError"}
    /\ \A c \in conv : \A p \in prevConv :
           (c.src.type = "HyperError" /\ p.src.type = "HyperError")
               => (c.res = p.res)

C7_Witness ==
    \E c \in conv : \E p \in prevConv :
        /\ c.src.type = "HyperError"
        /\ p.src.type = "HyperError"
        /\ c.src.kind = "Timeout"
        /\ p.src.kind = "Connect"

\* C8: an io::Error whose rendered message is m converts to ReadError(m).
C8_IoErrorToReadError ==
    \A c \in conv :
        (c.src.type = "IoError")
            => /\ c.res.tag = "ReadError"
               /\ c.res.msg = c.src.message
               /\ err = Some(c.res)

C8_Witness ==
    \E c \in conv :
        /\ c.src.type = "IoError"
        /\ c.src.message = "No such file or directory"
        /\ err = Some(ReadError("No such file or directory"))

\* C9: a failure of TLS session setup whose rendered message is m converts
\* to TlsError(m), never to ConnectionError, ReadError or SignerError.
C9_TlsFailureToTlsError ==
    \A c \in conv :
        (c.src.layer = "tls")
            => /\ c.res.tag = "TlsError"
               /\ c.res.tag \notin
                      {"ConnectionError", "ReadError", "SignerError"}
               /\ ("message" \in DOMAIN c.src => c.res.msg = c.src.message)

\* C10: rendering terminates: Display::fmt is never re-entered on the same
\* value until the stack is exhausted.
C10_RenderingTerminates == pc # "overflow"

====
